---- MODULE Spec2Model ----
(***************************************************************************)
(* opossum-decorator: the CircuitBreakerRegistry singleton and the Proxy   *)
(* `apply` handler installed by the @UseCircuitBreaker decorator.          *)
(*                                                                         *)
(* JavaScript runs one job at a time: an async function runs without       *)
(* interruption up to its next `await`.  Every action below is one such    *)
(* uninterrupted run of the source.                                        *)
(*                                                                         *)
(* The breaker engine (opossum) is an external package.  Its construction, *)
(* `fallback(fn)` and the settling of `fire` are modelled from the         *)
(* `handleError` listing quoted in the README; the open / half-open state  *)
(* machine, timeouts and caching are outside this model.                   *)
(***************************************************************************)
EXTENDS Integers, Sequences, FiniteSets, TLC

\* ----------------------------------------------------------------- bounds
\* Invocations of decorated methods in one behaviour; all may be in flight
\* at the same time.
MaxCalls == 2

\* ------------------------------------------------------ JavaScript values
Undef == [t |-> "undefined"]
Null == [t |-> "null"]
\* A property that the object literal does not hold at all.
Absent == [t |-> "absent"]
Str(s) == [t |-> "string", v |-> s]
Num(n) == [t |-> "number", v |-> n]
Bool(b) == [t |-> "boolean", v |-> b]
\* A plain object that is not a CircuitBreaker, such as { fire() {} }.
PlainObject == [t |-> "object"]
\* A reference to the CircuitBreaker instance at index id of `circuits`.
Ref(id) == [t |-> "CircuitBreaker", v |-> id]
\* A reference to the options object at index a of `objects`.
OptionsRef(a) == [t |-> "options", v |-> a]
\* The object a reference leads to; undefined for a nullish reference.
Deref(heap, x) == IF x \in {[t |-> "undefined"], [t |-> "null"], [t |-> "absent"]} THEN [t |-> "undefined"] ELSE heap[x.v]

\* x == null || x === undefined, the test made by `??` and `?.`.
Nullish(x) == x \in {Undef, Null, Absent}
\* ToBoolean(x), the test made by `!x`, `||` and `if (x)`.
Truthy(x) == ~Nullish(x) /\ x # Str("") /\ x # Num(0) /\ x # Bool(FALSE)
\* a ?? b
Coalesce(a, b) == IF Nullish(a) THEN b ELSE a
\* a || b
OrElse(a, b) == IF Truthy(a) THEN a ELSE b
\* typeof x === 'function'
IsFunction(x) == "t" \in DOMAIN x /\ x.t = "function"
\* o?.f : the value read from property f of object o.
Get(o, f) == IF Nullish(o) THEN Undef ELSE IF o[f] = Absent THEN Undef ELSE o[f]
\* Whether object o holds an own property f (whatever its value).
Has(o, f) == ~Nullish(o) /\ o[f] # Absent
\* `${x}` for the values that reach a template literal here.
TemplateString(x) == IF x.t = "string" THEN x.v ELSE x.t

\* ---------------------------------------------------------------- options
\* The CircuitBreaker.Options fields the model follows.
OptionFields == {"group", "name", "timeout", "errorFilter"}
EmptyOptions == [f \in OptionFields |-> Absent]
\* options with the listed fields set: Options([timeout |-> Num(500)]).
Options(fields) == [f \in OptionFields |-> IF f \in DOMAIN fields THEN fields[f] ELSE Absent]
\* An errorFilter: (error) => error.message === 'Not Found'.
NotFoundFilter == [t |-> "function", v |-> "isNotFound"]

\* { ...a, ...b } where a or b may be undefined: own properties of b win.
SpreadSwapped(a, b) == [f \in OptionFields |-> IF Has(a, f) THEN a[f] ELSE IF Has(b, f) THEN b[f] ELSE Absent]
Spread(a, b) == [f \in OptionFields |-> IF Has(b, f) THEN b[f] ELSE IF Has(a, f) THEN a[f] ELSE Absent]

\* ------------------------------------------------------------------ hooks
\* A setup hook, async (circuit) => {...}.  attachesFallback: it calls
\* circuit.fallback(...).  late: it does so after an await of its own, i.e.
\* when its promise is fulfilled, not while it is being called.  Whether its
\* promise is fulfilled or rejected is decided when it settles.
Hook(attachesFallback, late) == [t |-> "function", attachesFallback |-> attachesFallback, late |-> late]
ListenerHook == Hook(FALSE, FALSE)
FallbackHook == Hook(TRUE, FALSE)
LateFallbackHook == Hook(TRUE, TRUE)
\* The fallback a hook attaches: () => ({ data: {}, isFallback: true }).
HookFallback == [t |-> "function", v |-> "hookFallback", this |-> "none"]
\* outerThis[name].bind(outerThis)
BoundMethod(name, outerThis) == [t |-> "function", v |-> name, this |-> outerThis]

\* -------------------------------------------------------------- receivers
\* The objects a decorated method is called on (outerThis): two instances of
\* a class that declares fallback() { return this.fallbackValue }.
Receivers == {"r1", "r2"}
\* outerThis[name]
ReceiverProperty(r, name) ==
    CASE name = Str("fallback") -> [t |-> "function", v |-> "fallback"]
      [] name = Str("fallbackValue") -> Str(IF r = "r1" THEN "fallback-value-1" ELSE "fallback-value-2")
      [] name = Str("circuitName") -> Str(IF r = "r1" THEN "find" ELSE "lookup")
      [] OTHER -> Undef
\* options: function (this: Service) { return { name: this.circuitName, errorFilter } }
OptionsFromThis == [t |-> "function", v |-> "optionsFromThis"]
CallOptionsFunction(fn, thisArg) == Options([name |-> ReceiverProperty(thisArg, Str("circuitName")), errorFilter |-> NotFoundFilter])

\* ------------------------------------------------------------- call sites
\* UseCircuitBreakerOptions, the decorator's argument (maybeOptions).
UseCircuitBreakerOptions(fields) == [f \in {"options", "fallbackMethod", "returnFallbackWhenErrorIsFiltered", "setup"} |-> IF f \in DOMAIN fields THEN fields[f] ELSE Absent]
\* A decorated method: constructorName is target.constructor?.name.
Site(constructorName, propertyKey, maybeOptions) == [constructorName |-> constructorName, propertyKey |-> propertyKey, maybeOptions |-> maybeOptions]

\* The decorated methods of the program under check.  find and load share
\* the identity Svc:find; search takes its name from the receiver.
SiteCall == Site(Str("Svc"), "call", Undef)
SiteFind ==
    Site(Str("Svc"), "find",
         UseCircuitBreakerOptions([options |-> Options([errorFilter |-> NotFoundFilter]),
                                   fallbackMethod |-> Str("fallback"),
                                   returnFallbackWhenErrorIsFiltered |-> Bool(TRUE)]))
SiteLoad ==
    Site(Str("Svc"), "load",
         UseCircuitBreakerOptions([options |-> Options([name |-> Str("find"), timeout |-> Num(500), errorFilter |-> NotFoundFilter]),
                                   fallbackMethod |-> Str("fallback"),
                                   returnFallbackWhenErrorIsFiltered |-> Bool(FALSE),
                                   setup |-> FallbackHook]))
SiteSearch ==
    Site(Str("Svc"), "search",
         UseCircuitBreakerOptions([options |-> OptionsFromThis,
                                   fallbackMethod |-> Str("fallbackValue"),
                                   setup |-> LateFallbackHook]))
Sites == {SiteCall, SiteFind, SiteLoad, SiteSearch}

\* ----------------------------------------------------- default configuration
\* DefaultUseCircuitBreakerOptions.  The type of its options omits group and
\* name; nothing checks the object that is passed at run time.
DefaultUseCircuitBreakerOptions(fields) == [f \in {"options", "setup", "returnFallbackWhenErrorIsFiltered"} |-> IF f \in DOMAIN fields THEN fields[f] ELSE Absent]
\* The configurations the application passes to addDefaultOptions; the
\* options object of the second is the first of DefaultOptionsObjects.
DefaultOptionsObjects == <<Options([timeout |-> Num(1000)])>>
DefaultConfigurations ==
    { DefaultUseCircuitBreakerOptions(<<>>),
      DefaultUseCircuitBreakerOptions([options |-> OptionsRef(1), setup |-> ListenerHook, returnFallbackWhenErrorIsFiltered |-> Bool(TRUE)]),
      DefaultUseCircuitBreakerOptions([returnFallbackWhenErrorIsFiltered |-> Bool(FALSE)]) }

\* ------------------------------------------------------------------ state
VARIABLES
    REGISTRY,          \* registry[REGISTRY]: the Map, as its entries in insertion order
    DEFAULT_OPTIONS,   \* registry[DEFAULT_OPTIONS]
    circuits,          \* every CircuitBreaker constructed so far; Ref(i) is circuits[i]
    setupCalls,        \* setupCalls[i]: the setup hooks called with circuits[i], in call order
    pc,                \* where each invocation of a decorated method stands
    local,             \* the local variables of each invocation
    thrown,            \* the error the step just taken threw at the application, "none" if none
    objects,           \* the options objects the application built; OptionsRef(a) is objects[a]
    held,              \* the configuration object the application got from defaultOptions() and kept
    snapshot,          \* the array the last allCircuits() returned to the application
    descriptor         \* the property descriptor handed to the decorator

\* The state of the application around the registry and the decorator.
appVars == <<objects, held, snapshot, descriptor>>
vars == <<REGISTRY, DEFAULT_OPTIONS, circuits, setupCalls, pc, local, thrown, objects, held, snapshot, descriptor>>

\* The invocations, numbered in the order they start.
Procs == 1 .. MaxCalls

\* ------------------------------------------------------------ the engine
\* new CircuitBreaker(action, options)
NewCircuitBreaker(action, options) == [action |-> action, options |-> options, fallback |-> Undef]
\* original.bind(outerThis)
BindNothing(site, outerThis) == [method |-> site.propertyKey, this |-> "none"]
Bind(site, outerThis) == [method |-> site.propertyKey, this |-> outerThis]
\* The operation of a breaker the application itself constructed.
ExternalAction == [method |-> "operation", this |-> "none"]
\* circuit.fallback(fn) on the circuit at index id.
SetFallbackIfUnset(heap, id, fn) == IF heap[id].fallback = Undef THEN [heap EXCEPT ![id].fallback = fn] ELSE heap
SetFallback(heap, id, fn) == [heap EXCEPT ![id].fallback = fn]
\* circuit instanceof CircuitBreaker
InstanceOfCircuitBreaker(x) == x.t = "CircuitBreaker"

\* What the wrapped operation may do when the breaker fires it.
Outcomes == {"resolve", "Not Found", "Service Unavailable"}
\* circuit.options.errorFilter(error); opossum defaults errorFilter to _ => false.
ErrorFiltered(options, error) == Get(options, "errorFilter") = NotFoundFilter /\ error = "Not Found"
\* The value a function returns: the bound method and the arguments it ran with.
ReturnValue(fn, args) == [by |-> fn.v, this |-> fn.this, args |-> args]
\* The settled promise of circuit.fire(...args), after the operation ended
\* with `outcome`: opossum's handleError.
FireFilteredSwallowed(circuit, args, outcome) ==
    IF outcome = "resolve"
    THEN [status |-> "resolved", value |-> [by |-> circuit.action.method, this |-> circuit.action.this, args |-> args], emitted |-> {"fire", "success"}]
    ELSE IF ErrorFiltered(circuit.options, outcome)
    THEN [status |-> "resolved", value |-> [by |-> "nothing", this |-> "none", args |-> args], emitted |-> {"fire", "success"}]
    ELSE IF Truthy(circuit.fallback)
    THEN [status |-> "resolved", value |-> ReturnValue(circuit.fallback, Append(args, outcome)), emitted |-> {"fire", "failure", "fallback"}]
    ELSE [status |-> "rejected", value |-> outcome, emitted |-> {"fire", "failure"}]
Fire(circuit, args, outcome) ==
    IF outcome = "resolve"
    THEN [status |-> "resolved", value |-> [by |-> circuit.action.method, this |-> circuit.action.this, args |-> args], emitted |-> {"fire", "success"}]
    ELSE IF ErrorFiltered(circuit.options, outcome)
    THEN [status |-> "rejected", value |-> outcome, emitted |-> {"fire", "success"}]
    ELSE IF Truthy(circuit.fallback)
    THEN [status |-> "resolved", value |-> ReturnValue(circuit.fallback, Append(args, outcome)), emitted |-> {"fire", "failure", "fallback"}]
    ELSE [status |-> "rejected", value |-> outcome, emitted |-> {"fire", "failure"}]

\* ----------------------------------------------------------- the registry
\* Map.prototype.has / get / set on the entries of a Map.
MapHas(map, name) == \E i \in 1 .. Len(map) : map[i].name = name
MapGet(map, name) == IF MapHas(map, name) THEN (CHOOSE e \in {map[i] : i \in 1 .. Len(map)} : e.name = name).circuit ELSE Undef
MapSetNothing(map, name, circuit) == map
MapSet(map, name, circuit) ==
    IF MapHas(map, name)
    THEN [i \in 1 .. Len(map) |-> IF map[i].name = name THEN [name |-> name, circuit |-> circuit] ELSE map[i]]
    ELSE Append(map, [name |-> name, circuit |-> circuit])

\* The error register(name, circuit) throws, "none" when it throws nothing.
RegisterErrorNoDuplicateCheck(map, name, circuit) ==
    IF ~Truthy(name) THEN "Invalid circuit name. Circuit's name must be a string and cannot be null, undefined or blank"
    ELSE IF ~InstanceOfCircuitBreaker(circuit) THEN "Invalid circuit. Circuit cannot be null or undefined and must be instance of CircuitBreaker"
    ELSE "none"
RegisterErrorCircuitFirst(map, name, circuit) ==
    IF ~InstanceOfCircuitBreaker(circuit) THEN "Invalid circuit. Circuit cannot be null or undefined and must be instance of CircuitBreaker"
    ELSE IF ~Truthy(name) THEN "Invalid circuit name. Circuit's name must be a string and cannot be null, undefined or blank"
    ELSE IF MapHas(map, name.v) THEN "Invalid circuit name. A circuit with a name " \o name.v \o " is already registered"
    ELSE "none"
RegisterError(map, name, circuit) ==
    IF ~Truthy(name) THEN "Invalid circuit name. Circuit's name must be a string and cannot be null, undefined or blank"
    ELSE IF ~InstanceOfCircuitBreaker(circuit) THEN "Invalid circuit. Circuit cannot be null or undefined and must be instance of CircuitBreaker"
    ELSE IF MapHas(map, name.v) THEN "Invalid circuit name. A circuit with a name " \o name.v \o " is already registered"
    ELSE "none"
\* registry[REGISTRY] after register(name, circuit).
registerSetFirst(map, name, circuit) == IF Truthy(name) /\ InstanceOfCircuitBreaker(circuit) THEN MapSet(map, name.v, circuit) ELSE map
register(map, name, circuit) == IF RegisterError(map, name, circuit) = "none" THEN MapSet(map, name.v, circuit) ELSE map
\* registry.get(name)
getMiss(map, name) == Undef
get(map, name) == MapGet(map, name)
\* registry.allCircuits()
allCircuitsFromKeys(map) == [i \in 1 .. Len(map) |-> [name |-> map[i].name, circuit |-> Undef]]
allCircuits(map) == [i \in 1 .. Len(map) |-> [name |-> map[i].name, circuit |-> map[i].circuit]]
\* registry.defaultOptions(): { ...this[DEFAULT_OPTIONS] }, a new object with
\* the same property values; a property that refers to an object (options)
\* refers to the same object in the copy.
defaultOptions(options) == options

\* -------------------------------------------------------- the interceptor
\* getCircuitBreakerOptions(thisArg, maybeOptions): a fresh copy of the
\* per-call options, computed from the receiver when options is a function.
getCircuitBreakerOptions(thisArg, maybeOptions) ==
    IF IsFunction(Get(maybeOptions, "options"))
    THEN Spread(Undef, CallOptionsFunction(Get(maybeOptions, "options"), thisArg))
    ELSE Spread(Undef, Get(maybeOptions, "options"))

\* The decimal digits of n, for the tokens randomUUID() returns.
RECURSIVE Decimal(_)
Decimal(n) == IF n < 10 THEN SubSeq("0123456789", n + 1, n + 1) ELSE Decimal(n \div 10) \o SubSeq("0123456789", (n % 10) + 1, (n % 10) + 1)
\* randomUUID(): a token no other call returns (n is the number of the invocation).
randomUUID(n) == Str("uuid-" \o Decimal(n))

\* { ...defaultUseCircuitBreakerOptions?.options, ...thisCircuitOptions }
MergeOptions(defaultUseCircuitBreakerOptions, thisCircuitOptions) == Spread(Deref(objects, Get(defaultUseCircuitBreakerOptions, "options")), thisCircuitOptions)
\* circuitOptions.group ?? target.constructor?.name ?? randomUUID()
CircuitGroup(circuitOptions, site, n) == Coalesce(Get(circuitOptions, "group"), Coalesce(site.constructorName, randomUUID(n)))
\* circuitOptions.name ?? propertyKey.toString()
CircuitName(circuitOptions, site) == Coalesce(Get(circuitOptions, "name"), Str(site.propertyKey))
\* `${circuitGroup}:${circuitName}`
CircuitFullName(circuitGroup, circuitName) == TemplateString(circuitGroup) \o ":" \o TemplateString(circuitName)
\* circuitOptions after group and name were filled in (|| keeps a truthy value).
WithIdentity(circuitOptions, circuitGroup, circuitName) ==
    [circuitOptions EXCEPT !.group = OrElse(Get(circuitOptions, "group"), circuitGroup),
                           !.name = OrElse(Get(circuitOptions, "name"), circuitName)]

\* The identity of the objects the handler works on.  An object literal
\* evaluates to a new object, named here after the local it is assigned to;
\* the object the call site supplies is Supplied, and an options object of
\* the application is its OptionsRef.
NewObject(name) == [t |-> name]
Supplied == [t |-> "supplied"]
\* The object getCircuitBreakerOptions returns: { ...circuitOptions }.
ThisCircuitOptionsObject(supplied) == NewObject("thisCircuitOptions")
\* const circuitOptions = { ...defaultUseCircuitBreakerOptions?.options, ...thisCircuitOptions }
CircuitOptionsObjectOfDefaults(defaultOptionsObject, thisCircuitOptionsObject) == defaultOptionsObject
CircuitOptionsObject(defaultOptionsObject, thisCircuitOptionsObject) == NewObject("circuitOptions")
\* circuitOptions.group = ...; circuitOptions.name = ...: what the two
\* assignments leave in `object`, which is the object `identity`, when
\* circuitOptions is the object `written`.
AssignIdentity(identity, object, written, circuitGroup, circuitName) ==
    IF identity = written
    THEN [object EXCEPT !.group = OrElse(Get(object, "group"), circuitGroup), !.name = OrElse(Get(object, "name"), circuitName)]
    ELSE object
\* The application's options objects after the two assignments.
AssignIdentityIn(heap, written, circuitGroup, circuitName) == [a \in DOMAIN heap |-> AssignIdentity(OptionsRef(a), heap[a], written, circuitGroup, circuitName)]
\* maybeOptions.options.apply(thisArg), or maybeOptions?.options: the object
\* the call site supplies.
SuppliedOptions(thisArg, maybeOptions) ==
    IF IsFunction(Get(maybeOptions, "options")) THEN CallOptionsFunction(Get(maybeOptions, "options"), thisArg) ELSE Get(maybeOptions, "options")

\* if (circuit): the registry already holds a breaker under the key.
NeverFound(circuit) == FALSE
Found(circuit) == Truthy(circuit)

\* The fallback of the creating invocation: outerThis[fallbackMethod].bind(outerThis)
\* when fallbackMethod names a function of the receiver, else undefined.
ResolveFallbackNever(maybeOptions, outerThis) == Undef
ResolveFallback(maybeOptions, outerThis) ==
    IF Truthy(Get(maybeOptions, "fallbackMethod")) /\ IsFunction(ReceiverProperty(outerThis, Get(maybeOptions, "fallbackMethod")))
    THEN BoundMethod(Get(maybeOptions, "fallbackMethod").v, outerThis)
    ELSE Undef

\* What a hook does to the breaker while it is being called, and when its
\* promise is fulfilled.
HookOnCall(heap, id, hook) == IF hook.attachesFallback /\ ~hook.late THEN SetFallback(heap, id, HookFallback) ELSE heap
HookOnFulfilled(heap, id, hook) == IF hook.attachesFallback /\ hook.late THEN SetFallback(heap, id, HookFallback) ELSE heap

\* The frame of an invocation: the locals of the apply handler, whether it
\* took the creating path, how the wrapped operation ended, and the settled
\* promise the caller gets.
IdleFrame == [site |-> Undef, outerThis |-> "none", args |-> <<>>, supplied |-> Undef, defaultUseCircuitBreakerOptions |-> Undef,
              circuitFullName |-> "", circuit |-> Undef, created |-> FALSE, outcome |-> "none", result |-> Undef]

\* The creating invocation from the given stage on, up to its next await:
\* stage 1 is the default setup hook, 2 the per-call setup hook, 3 the
\* fallbackMethod and the fire.  heap and log are
\* the circuits and the setup calls as the run has left them so far.  The
\* local defaultUseCircuitBreakerOptions is last read when the default hook
\* is called; the frame keeps it only while that hook's promise is awaited.
CreationSequenceNoAwait(p, frame, stage, heap, log) ==
    LET maybeOptions == frame.site.maybeOptions
        defaultSetup == Get(frame.defaultUseCircuitBreakerOptions, "setup")
        setup == Get(maybeOptions, "setup")
        id == frame.circuit.v
        fallback == ResolveFallback(maybeOptions, frame.outerThis)
        called == stage <= 1 /\ Truthy(defaultSetup)
        heap1 == IF called THEN HookOnFulfilled(HookOnCall(heap, id, defaultSetup), id, defaultSetup) ELSE heap
        log1 == IF called THEN [log EXCEPT ![id] = Append(@, [hook |-> "default", this |-> "none", args |-> <<frame.circuit>>])] ELSE log
    IN  IF stage <= 2 /\ Truthy(setup)
        THEN /\ circuits' = HookOnCall(heap1, id, setup)
             /\ setupCalls' = [log1 EXCEPT ![id] = Append(@, [hook |-> "perCall", this |-> frame.outerThis, args |-> <<frame.circuit>>])]
             /\ pc' = [pc EXCEPT ![p] = "awaitSetup"]
             /\ local' = [local EXCEPT ![p] = [frame EXCEPT !.defaultUseCircuitBreakerOptions = Undef]]
        ELSE /\ circuits' = IF Truthy(fallback) THEN SetFallback(heap1, id, fallback) ELSE heap1
             /\ setupCalls' = log1
             /\ pc' = [pc EXCEPT ![p] = "fired"]
             /\ local' = [local EXCEPT ![p] = [frame EXCEPT !.defaultUseCircuitBreakerOptions = Undef]]
CreationSequence(p, frame, stage, heap, log) ==
    LET maybeOptions == frame.site.maybeOptions
        defaultSetup == Get(frame.defaultUseCircuitBreakerOptions, "setup")
        setup == Get(maybeOptions, "setup")
        id == frame.circuit.v
        fallback == ResolveFallback(maybeOptions, frame.outerThis)
    IN  IF stage <= 1 /\ Truthy(defaultSetup)
        THEN /\ circuits' = HookOnCall(heap, id, defaultSetup)
             /\ setupCalls' = [log EXCEPT ![id] = Append(@, [hook |-> "default", this |-> "none", args |-> <<frame.circuit>>])]
             /\ pc' = [pc EXCEPT ![p] = "awaitDefaultSetup"]
             /\ local' = [local EXCEPT ![p] = frame]
        ELSE IF stage <= 2 /\ Truthy(setup)
        THEN /\ circuits' = HookOnCall(heap, id, setup)
             /\ setupCalls' = [log EXCEPT ![id] = Append(@, [hook |-> "perCall", this |-> frame.outerThis, args |-> <<frame.circuit>>])]
             /\ pc' = [pc EXCEPT ![p] = "awaitSetup"]
             /\ local' = [local EXCEPT ![p] = [frame EXCEPT !.defaultUseCircuitBreakerOptions = Undef]]
        ELSE /\ circuits' = IF Truthy(fallback) THEN SetFallback(heap, id, fallback) ELSE heap
             /\ setupCalls' = log
             /\ pc' = [pc EXCEPT ![p] = "fired"]
             /\ local' = [local EXCEPT ![p] = [frame EXCEPT !.defaultUseCircuitBreakerOptions = Undef]]

\* The arguments of a call: each call passes a value of its own.
Arguments(p) == <<"arg-" \o Decimal(p)>>

\* A decorated method is called: the Proxy's apply handler up to its first
\* await (a setup hook's promise, or the promise of fire).
Invoke(p, site, outerThis) ==
    /\ pc[p] = "idle"
    /\ \A q \in Procs : q < p => pc[q] # "idle"
    /\ LET maybeOptions == site.maybeOptions
           thisCircuitOptions == getCircuitBreakerOptions(outerThis, maybeOptions)
           defaultUseCircuitBreakerOptions == defaultOptions(DEFAULT_OPTIONS)
           circuitOptions == MergeOptions(defaultUseCircuitBreakerOptions, thisCircuitOptions)
           circuitGroup == CircuitGroup(circuitOptions, site, p)
           circuitName == CircuitName(circuitOptions, site)
           circuitFullName == CircuitFullName(circuitGroup, circuitName)
           circuit == get(REGISTRY, circuitFullName)
           frame == [site |-> site, outerThis |-> outerThis, args |-> Arguments(p),
                     supplied |-> SuppliedOptions(outerThis, maybeOptions),
                     defaultUseCircuitBreakerOptions |-> defaultUseCircuitBreakerOptions,
                     circuitFullName |-> circuitFullName, circuit |-> circuit, created |-> FALSE, outcome |-> "none", result |-> Undef]
           newCircuit == Ref(Len(circuits) + 1)
           heap == Append(circuits, NewCircuitBreaker(Bind(site, outerThis), WithIdentity(circuitOptions, circuitGroup, circuitName)))
           error == RegisterError(REGISTRY, Str(circuitFullName), newCircuit)
           written == CircuitOptionsObject(Get(defaultUseCircuitBreakerOptions, "options"), ThisCircuitOptionsObject(Supplied))
           creating == [frame EXCEPT !.circuit = newCircuit, !.created = TRUE,
                                     !.supplied = AssignIdentity(Supplied, @, written, circuitGroup, circuitName)]
       IN  IF Found(circuit)
           THEN /\ pc' = [pc EXCEPT ![p] = "fired"]
                /\ local' = [local EXCEPT ![p] = [frame EXCEPT !.defaultUseCircuitBreakerOptions = Undef]]
                /\ UNCHANGED <<REGISTRY, circuits, setupCalls, objects>>
           ELSE IF error # "none"
           THEN /\ pc' = [pc EXCEPT ![p] = "done"]
                /\ local' = [local EXCEPT ![p] = [creating EXCEPT !.defaultUseCircuitBreakerOptions = Undef,
                                                  !.result = [status |-> "rejected", value |-> error, emitted |-> {}]]]
                /\ circuits' = heap
                /\ setupCalls' = Append(setupCalls, <<>>)
                /\ objects' = AssignIdentityIn(objects, written, circuitGroup, circuitName)
                /\ UNCHANGED REGISTRY
           ELSE /\ REGISTRY' = register(REGISTRY, Str(circuitFullName), newCircuit)
                /\ objects' = AssignIdentityIn(objects, written, circuitGroup, circuitName)
                /\ CreationSequence(p, creating, 1, heap, Append(setupCalls, <<>>))
    /\ thrown' = "none"
    /\ UNCHANGED <<DEFAULT_OPTIONS, held, snapshot, descriptor>>

\* The promise of the default setup hook settles: fulfilled, or rejected.
DefaultSetupSettled(p, fulfilled) ==
    /\ pc[p] = "awaitDefaultSetup"
    /\ LET hook == Get(local[p].defaultUseCircuitBreakerOptions, "setup")
       IN  IF ~fulfilled
           THEN /\ pc' = [pc EXCEPT ![p] = "done"]
                /\ local' = [local EXCEPT ![p].result = [status |-> "rejected", value |-> "default setup failed", emitted |-> {}],
                                         ![p].defaultUseCircuitBreakerOptions = Undef]
                /\ UNCHANGED <<circuits, setupCalls>>
           ELSE CreationSequence(p, local[p], 2, HookOnFulfilled(circuits, local[p].circuit.v, hook), setupCalls)
    /\ thrown' = "none"
    /\ UNCHANGED <<REGISTRY, DEFAULT_OPTIONS, appVars>>

\* The promise of the per-call setup hook settles: fulfilled, or rejected.
SetupSettledRollback(p, fulfilled) ==
    /\ pc[p] = "awaitSetup"
    /\ LET hook == Get(local[p].site.maybeOptions, "setup")
       IN  IF ~fulfilled
           THEN /\ pc' = [pc EXCEPT ![p] = "done"]
                /\ local' = [local EXCEPT ![p].result = [status |-> "rejected", value |-> "setup failed", emitted |-> {}]]
                /\ REGISTRY' = SelectSeq(REGISTRY, LAMBDA e : e.name # local[p].circuitFullName)
                /\ UNCHANGED <<circuits, setupCalls>>
           ELSE /\ CreationSequence(p, local[p], 3, HookOnFulfilled(circuits, local[p].circuit.v, hook), setupCalls)
                /\ UNCHANGED REGISTRY
    /\ thrown' = "none"
    /\ UNCHANGED <<DEFAULT_OPTIONS, appVars>>
SetupSettledAttaching(p, fulfilled) ==
    /\ pc[p] = "awaitSetup"
    /\ LET hook == Get(local[p].site.maybeOptions, "setup")
           fallback == ResolveFallback(local[p].site.maybeOptions, local[p].outerThis)
       IN  IF ~fulfilled
           THEN /\ pc' = [pc EXCEPT ![p] = "done"]
                /\ local' = [local EXCEPT ![p].result = [status |-> "rejected", value |-> "setup failed", emitted |-> {}]]
                /\ circuits' = IF Truthy(fallback) THEN SetFallback(circuits, local[p].circuit.v, fallback) ELSE circuits
                /\ UNCHANGED setupCalls
           ELSE CreationSequence(p, local[p], 3, HookOnFulfilled(circuits, local[p].circuit.v, hook), setupCalls)
    /\ thrown' = "none"
    /\ UNCHANGED <<REGISTRY, DEFAULT_OPTIONS, appVars>>
SetupSettled(p, fulfilled) ==
    /\ pc[p] = "awaitSetup"
    /\ LET hook == Get(local[p].site.maybeOptions, "setup")
       IN  IF ~fulfilled
           THEN /\ pc' = [pc EXCEPT ![p] = "done"]
                /\ local' = [local EXCEPT ![p].result = [status |-> "rejected", value |-> "setup failed", emitted |-> {}]]
                /\ UNCHANGED <<circuits, setupCalls>>
           ELSE CreationSequence(p, local[p], 3, HookOnFulfilled(circuits, local[p].circuit.v, hook), setupCalls)
    /\ thrown' = "none"
    /\ UNCHANGED <<REGISTRY, DEFAULT_OPTIONS, appVars>>

\* The wrapped operation ends and the promise of fire settles; the apply
\* handler returns that promise, so the invocation settles the same way.
Settle(p, outcome) ==
    /\ pc[p] = "fired"
    /\ pc' = [pc EXCEPT ![p] = "done"]
    /\ local' = [local EXCEPT ![p].result = Fire(circuits[local[p].circuit.v], local[p].args, outcome),
                             ![p].outcome = outcome]
    /\ thrown' = "none"
    /\ UNCHANGED <<REGISTRY, DEFAULT_OPTIONS, circuits, setupCalls, appVars>>

\* ------------------------------------------- direct calls of the registry
\* The arguments the application passes to register.
RegisterNames == {Null, Undef, Str(""), Str("Svc:call"), Str("circuit-invalid")}
\* The breakers the application has constructed itself.
ExternalCircuits == {Ref(1), Ref(2)}
RegisterCircuits == {Null, Undef, PlainObject, Ref(1), Ref(2)}

\* registry.register(name, circuit), called by the application.
RegisterCall(name, circuit) ==
    /\ thrown' = RegisterError(REGISTRY, name, circuit)
    /\ REGISTRY' = register(REGISTRY, name, circuit)
    /\ UNCHANGED <<DEFAULT_OPTIONS, circuits, setupCalls, pc, local, appVars>>

\* registry.addDefaultOptions(options): this[DEFAULT_OPTIONS] = { ...options },
\* a new object with the property values of the one passed.
addDefaultOptionsMerged(options) ==
    /\ DEFAULT_OPTIONS' = [f \in DOMAIN DEFAULT_OPTIONS |-> IF options[f] # Absent THEN options[f] ELSE DEFAULT_OPTIONS[f]]
    /\ DEFAULT_OPTIONS' # DEFAULT_OPTIONS
    /\ thrown' = "none"
    /\ UNCHANGED <<REGISTRY, circuits, setupCalls, pc, local, appVars>>
addDefaultOptions(options) ==
    /\ DEFAULT_OPTIONS # options
    /\ DEFAULT_OPTIONS' = options
    /\ thrown' = "none"
    /\ UNCHANGED <<REGISTRY, circuits, setupCalls, pc, local, appVars>>

\* --------------------------------------------- the application's own steps
\* const config = registry.defaultOptions(): the application keeps the copy.
DefaultOptionsCall ==
    /\ held' = defaultOptions(DEFAULT_OPTIONS)
    /\ held' # held
    /\ thrown' = "none"
    /\ UNCHANGED <<REGISTRY, DEFAULT_OPTIONS, circuits, setupCalls, pc, local, objects, snapshot, descriptor>>

\* config[field] = value, on the configuration the application holds.
AssignHeld(field, value) ==
    /\ held # Undef
    /\ held' = [held EXCEPT ![field] = value]
    /\ held' # held
    /\ thrown' = "none"
    /\ UNCHANGED <<REGISTRY, DEFAULT_OPTIONS, circuits, setupCalls, pc, local, objects, snapshot, descriptor>>

\* config.options[field] = value, on the configuration the application holds.
AssignHeldOptions(field, value) ==
    /\ Has(held, "options")
    /\ objects' = [objects EXCEPT ![held.options.v][field] = value]
    /\ objects' # objects
    /\ thrown' = "none"
    /\ UNCHANGED <<REGISTRY, DEFAULT_OPTIONS, circuits, setupCalls, pc, local, held, snapshot, descriptor>>

\* passed.options[field] = value, on an options object the application built
\* and passed to addDefaultOptions inside a configuration.
AssignPassedOptions(a, field, value) ==
    /\ a \in 1 .. Len(objects)
    /\ objects' = [objects EXCEPT ![a][field] = value]
    /\ objects' # objects
    /\ thrown' = "none"
    /\ UNCHANGED <<REGISTRY, DEFAULT_OPTIONS, circuits, setupCalls, pc, local, held, snapshot, descriptor>>

\* const all = registry.allCircuits(): the application keeps the array.
AllCircuitsCall ==
    /\ snapshot' = [taken |-> TRUE, array |-> allCircuits(REGISTRY)]
    /\ snapshot' # snapshot
    /\ thrown' = "none"
    /\ UNCHANGED <<REGISTRY, DEFAULT_OPTIONS, circuits, setupCalls, pc, local, objects, held, descriptor>>

\* The values a class member may hold when the decorator is applied to it.
OriginalMethod == [t |-> "function", v |-> "original"]
MemberValues == {OriginalMethod, Str(""), Num(0), Undef}
\* Object.getOwnPropertyDescriptor(service, 'call') for a member holding value.
GetOwnPropertyDescriptor(value) ==
    /\ descriptor = Undef
    /\ descriptor' = [value |-> value]
    /\ thrown' = "none"
    /\ UNCHANGED <<REGISTRY, DEFAULT_OPTIONS, circuits, setupCalls, pc, local, objects, held, snapshot>>

\* The error the decorator throws for the member, "none" when it throws nothing.
DecorateErrorNever(original, propertyKey) == "none"
DecorateError(original, propertyKey) ==
    IF ~IsFunction(original)
    THEN "The @UseCircuitBreaker decorator can be only used on functions, but " \o propertyKey \o " is not a function."
    ELSE "none"
\* new Proxy(original, { apply }): callable, and not the original.
ProxyOf(original) == [t |-> "function", v |-> "proxy"]
\* UseCircuitBreaker()(target, 'call', descriptor)
Decorate ==
    /\ descriptor # Undef
    /\ descriptor.value # ProxyOf(descriptor.value)
    /\ thrown' = DecorateError(descriptor.value, "call")
    /\ descriptor' = IF DecorateError(descriptor.value, "call") = "none" THEN [value |-> ProxyOf(descriptor.value)] ELSE descriptor
    /\ UNCHANGED <<REGISTRY, DEFAULT_OPTIONS, circuits, setupCalls, pc, local, objects, held, snapshot>>

\* ----------------------------------------------------------- specification
\* The application before it called anything.
InitApplication ==
    /\ held = Undef
    /\ snapshot = [taken |-> FALSE, array |-> <<>>]
    /\ descriptor = Undef

\* The registry after its constructor; the application has constructed two
\* breakers of its own, new CircuitBreaker(async () => 'operation').
Init ==
    /\ REGISTRY = <<>>
    /\ DEFAULT_OPTIONS = DefaultUseCircuitBreakerOptions(<<>>)
    /\ objects = DefaultOptionsObjects
    /\ circuits = <<NewCircuitBreaker(ExternalAction, EmptyOptions), NewCircuitBreaker(ExternalAction, EmptyOptions)>>
    /\ setupCalls = << <<>>, <<>> >>
    /\ pc = [p \in Procs |-> "idle"]
    /\ local = [p \in Procs |-> IdleFrame]
    /\ thrown = "none"
    /\ InitApplication

Next ==
    \/ \E p \in Procs, site \in Sites, outerThis \in Receivers : Invoke(p, site, outerThis)
    \/ \E p \in Procs, fulfilled \in BOOLEAN : DefaultSetupSettled(p, fulfilled)
    \/ \E p \in Procs, fulfilled \in BOOLEAN : SetupSettled(p, fulfilled)
    \/ \E p \in Procs, outcome \in Outcomes : Settle(p, outcome)
    \/ \E circuit \in ExternalCircuits : RegisterCall(Str("Svc:call"), circuit)
    \/ \E options \in DefaultConfigurations : addDefaultOptions(options)

Spec == Init /\ [][Next]_vars

\* The registry alone: the application calls register with every kind of
\* argument and replaces the default configuration, and a method decorated
\* with @UseCircuitBreaker() is called.
NextRegistry ==
    \/ \E name \in RegisterNames, circuit \in RegisterCircuits : RegisterCall(name, circuit)
    \/ \E options \in DefaultConfigurations : addDefaultOptions(options)
    \/ \E outerThis \in Receivers : Invoke(1, SiteCall, outerThis)
    \/ \E outcome \in Outcomes : Settle(1, outcome)

SpecRegistry == Init /\ [][NextRegistry]_vars

\* The application around one decorated method: it sets, reads and writes
\* default configurations, lists the registry and applies the decorator.
NextApplication ==
    \/ \E circuit \in ExternalCircuits : RegisterCall(Str("circuit-invalid"), circuit)
    \/ \E options \in DefaultConfigurations : addDefaultOptions(options)
    \/ DefaultOptionsCall
    \/ \E value \in {Absent, FallbackHook} : AssignHeld("setup", value)
    \/ \E value \in {Num(1), Num(1000)} : AssignHeldOptions("timeout", value)
    \/ \E a \in 1 .. Len(DefaultOptionsObjects), value \in {Num(1), Num(1000)} : AssignPassedOptions(a, "timeout", value)
    \/ AllCircuitsCall
    \/ \E value \in MemberValues : GetOwnPropertyDescriptor(value)
    \/ Decorate
    \/ \E outerThis \in Receivers : Invoke(1, SiteCall, outerThis)
    \/ \E outcome \in Outcomes : Settle(1, outcome)

SpecApplication == Init /\ [][NextApplication]_vars

\* ------------------------------------------- the resolution of the options
\* One invocation under every shape of default and per-call options: what
\* identity it computes and what options the breaker is created with.
PerCallOptions ==
    { Options([group |-> g, name |-> n, timeout |-> t, errorFilter |-> e]) :
        g \in {Absent, Undef, Str(""), Str("G")}, n \in {Absent, Null, Str("N")},
        t \in {Absent, Undef, Num(500)}, e \in {Absent, NotFoundFilter} }
\* A method whose options are computed from the receiver, without hooks.
SiteLookup == Site(Str("Svc"), "lookup", UseCircuitBreakerOptions([options |-> OptionsFromThis, fallbackMethod |-> Str("fallback")]))
\* target.constructor?.name is undefined for a target without constructor and
\* '' for an anonymous class.
OptionSites ==
    { Site(c, "call", UseCircuitBreakerOptions([options |-> o])) : c \in {Undef, Str(""), Str("Svc")}, o \in PerCallOptions }
        \cup {SiteCall, SiteLookup}
OptionDefaults ==
    { Options([group |-> g, timeout |-> t, errorFilter |-> e]) :
        g \in {Absent, Str("Shared")}, t \in {Absent, Undef, Num(1000)}, e \in {Absent, NotFoundFilter} }

\* addDefaultOptions was called once, before any decorated method is called.
InitOptions ==
    /\ REGISTRY = <<>>
    /\ \/ objects = <<>> /\ DEFAULT_OPTIONS = DefaultUseCircuitBreakerOptions(<<>>)
       \/ \E o \in OptionDefaults : objects = <<o>> /\ DEFAULT_OPTIONS = DefaultUseCircuitBreakerOptions([options |-> OptionsRef(1)])
    /\ circuits = <<NewCircuitBreaker(ExternalAction, EmptyOptions), NewCircuitBreaker(ExternalAction, EmptyOptions)>>
    /\ setupCalls = << <<>>, <<>> >>
    /\ pc = [p \in Procs |-> "idle"]
    /\ local = [p \in Procs |-> IdleFrame]
    /\ thrown = "none"
    /\ InitApplication

NextOptions ==
    \/ \E site \in OptionSites, outerThis \in Receivers : Invoke(1, site, outerThis)
    \/ \E outcome \in Outcomes : Settle(1, outcome)

SpecOptions == InitOptions /\ [][NextOptions]_vars

\* ------------------------------------------------------------------ claims
Started(p) == pc[p] # "idle"
\* The setup calls of the given kind made with circuits[i].
SetupCount(i, kind) == Cardinality({n \in 1 .. Len(setupCalls[i]) : setupCalls[i][n].hook = kind})
\* The invocations that took the creating path for the key.
Creators(key) == {q \in Procs : Started(q) /\ local[q].circuitFullName = key /\ local[q].created}
AlreadyRegistered(name) == "Invalid circuit name. A circuit with a name " \o name \o " is already registered"
\* The entries of the Map, read without the registry's methods.
Keys(map) == {map[i].name : i \in 1 .. Len(map)}
Entry(map, key) == {map[i].circuit : i \in {n \in 1 .. Len(map) : map[n].name = key}}
InvalidName == "Invalid circuit name. Circuit's name must be a string and cannot be null, undefined or blank"
InvalidCircuit == "Invalid circuit. Circuit cannot be null or undefined and must be instance of CircuitBreaker"

\* C1: whatever the interleaving of the invocations on one identity, the
\* registry holds exactly one breaker under its key, every invocation on the
\* identity uses that breaker, at most one invocation took the creating path
\* (exactly one when the application did not register the key itself), and
\* each setup hook was called at most once with that breaker, exactly once
\* when the creating invocation has reached or passed it.
C1_ExactlyOneCreation ==
    \A p \in Procs : Started(p) =>
        LET key == local[p].circuitFullName
            id == local[p].circuit.v
        IN  /\ Cardinality({i \in 1 .. Len(REGISTRY) : REGISTRY[i].name = key}) = 1
            /\ Entry(REGISTRY, key) = {local[p].circuit}
            /\ Cardinality(Creators(key)) <= 1
            /\ (Creators(key) = {} => local[p].circuit \in ExternalCircuits)
            /\ local[p].result # [status |-> "rejected", value |-> AlreadyRegistered(key), emitted |-> {}]
            /\ SetupCount(id, "default") <= 1
            /\ SetupCount(id, "perCall") <= 1
            /\ (local[p].created /\ pc[p] = "awaitDefaultSetup" => SetupCount(id, "default") = 1 /\ SetupCount(id, "perCall") = 0)
            /\ (local[p].created /\ pc[p] = "awaitSetup" => SetupCount(id, "perCall") = 1)
            /\ (local[p].created /\ pc[p] = "fired" => SetupCount(id, "perCall") = (IF Truthy(Get(local[p].site.maybeOptions, "setup")) THEN 1 ELSE 0))
\* Two invocations on one cold identity are in flight: the first registered
\* the breaker and awaits a setup hook, the second has fired that breaker.
C1_Witness ==
    \E p, q \in Procs :
        /\ p # q
        /\ local[p].circuitFullName = local[q].circuitFullName
        /\ local[p].created /\ pc[p] \in {"awaitDefaultSetup", "awaitSetup"}
        /\ ~local[q].created /\ pc[q] = "fired"
        /\ local[q].circuit = local[p].circuit

\* C2: register(name, circuit) on a name the registry holds throws the
\* already-registered error and changes neither the entry nor the keys.
C2_DuplicateRejected ==
    [][\A name \in RegisterNames, circuit \in ExternalCircuits :
          (RegisterCall(name, circuit) /\ name.t = "string" /\ name.v \in Keys(REGISTRY))
              => /\ thrown' = AlreadyRegistered(name.v)
                 /\ Entry(REGISTRY', name.v) = Entry(REGISTRY, name.v)
                 /\ Keys(REGISTRY') = Keys(REGISTRY)
                 /\ REGISTRY' = REGISTRY]_vars
\* The second of two breakers was refused under the name of the first.
C2_Witness ==
    /\ thrown = AlreadyRegistered("circuit-invalid")
    /\ Entry(REGISTRY, "circuit-invalid") = {Ref(1)}

\* C3: an invocation that finds its key in the registry fires the breaker
\* found there with its own arguments and changes neither the registry, nor
\* any breaker (options, fallback), nor the setup calls made; no setup hook
\* is ever called twice with one breaker.
C3_ExistingOnlyFires ==
    [][/\ \A p \in Procs :
            (pc[p] = "idle" /\ pc'[p] # "idle" /\ local'[p].circuitFullName \in Keys(REGISTRY))
                => /\ pc'[p] = "fired"
                   /\ ~local'[p].created
                   /\ Entry(REGISTRY, local'[p].circuitFullName) = {local'[p].circuit}
                   /\ local'[p].args = Arguments(p)
                   /\ REGISTRY' = REGISTRY
                   /\ circuits' = circuits
                   /\ setupCalls' = setupCalls
       /\ \A i \in 1 .. Len(setupCalls') : SetupCount(i, "default")' <= 1 /\ SetupCount(i, "perCall")' <= 1]_vars
\* Two invocations on one identity have settled and the default setup hook
\* was called once.
C3_Witness ==
    \E p, q \in Procs :
        /\ p # q /\ pc[p] = "done" /\ pc[q] = "done"
        /\ local[p].circuitFullName = local[q].circuitFullName
        /\ local[p].created /\ ~local[q].created
        /\ local[p].outcome # "none" /\ local[q].outcome # "none"
        /\ SetupCount(local[p].circuit.v, "default") = 1

\* C9: an entry of the registry is never replaced and never removed: after
\* every step, get returns for each registered name the breaker it returned
\* before the step.
C9_NeverReplaced ==
    [][\A key \in Keys(REGISTRY) : Entry(REGISTRY', key) = Entry(REGISTRY, key) /\ get(REGISTRY', key) = get(REGISTRY, key)]_vars
\* The application's breaker is still registered after a decorated method
\* created another entry and a further register of its name was refused.
C9_Witness ==
    /\ Len(REGISTRY) >= 2
    /\ REGISTRY[1] = [name |-> "Svc:call", circuit |-> Ref(2)]
    /\ thrown = AlreadyRegistered("Svc:call")
    /\ \E p \in Procs : pc[p] = "done" /\ local[p].circuit = Ref(2)

\* C10: register throws the invalid-name error for a null, undefined or
\* empty name, whatever the circuit; for a usable name it throws the
\* invalid-circuit error when the circuit is null, undefined or no
\* CircuitBreaker; in both cases the registry is unchanged.
C10_InvalidArguments ==
    [][\A name \in RegisterNames, circuit \in RegisterCircuits :
          RegisterCall(name, circuit)
              => /\ name \in {Null, Undef, Str("")} => thrown' = InvalidName /\ REGISTRY' = REGISTRY
                 /\ (name \notin {Null, Undef, Str("")} /\ circuit \in {Null, Undef, PlainObject})
                        => thrown' = InvalidCircuit /\ REGISTRY' = REGISTRY]_vars
\* A register with an empty name was refused while the registry held entries.
C10_Witness ==
    /\ thrown = InvalidName
    /\ Len(REGISTRY) = 2

\* The options object the call site supplies for the invocation: the options
\* literal, or what the options function returns for the receiver.
PerCall(p) ==
    LET options == Get(local[p].site.maybeOptions, "options")
    IN  IF IsFunction(options) THEN CallOptionsFunction(options, local[p].outerThis) ELSE options
\* The options the breaker of the invocation was constructed with.
Created(p) == circuits[local[p].circuit.v].options
\* The returnFallbackWhenErrorIsFiltered values of the call site and of the
\* process-wide default configuration.
PerCallFlag(p) == Get(local[p].site.maybeOptions, "returnFallbackWhenErrorIsFiltered")
DefaultFlag == Get(DEFAULT_OPTIONS, "returnFallbackWhenErrorIsFiltered")
\* The invocation settles now, on an error its breaker's errorFilter matches,
\* while a fallback is attached to the breaker.
SettlesFiltered(p) ==
    /\ pc[p] = "fired" /\ pc'[p] = "done"
    /\ ErrorFiltered(circuits[local[p].circuit.v].options, local'[p].outcome)
    /\ Truthy(circuits[local[p].circuit.v].fallback)
ResolvedByFallback(p) ==
    /\ local'[p].result.status = "resolved"
    /\ local'[p].result.value = ReturnValue(circuits[local[p].circuit.v].fallback, Append(local[p].args, local'[p].outcome))
RejectedWithError(p) ==
    /\ local'[p].result.status = "rejected"
    /\ local'[p].result.value = local'[p].outcome

\* C4: a filtered error with a fallback attached resolves to the fallback's
\* value when returnFallbackWhenErrorIsFiltered is true, and rejects with the
\* original error when the flag is false or absent.
C4_FilteredErrorPolicy ==
    [][\A p \in Procs : SettlesFiltered(p) =>
          IF Coalesce(PerCallFlag(p), DefaultFlag) = Bool(TRUE) THEN ResolvedByFallback(p) ELSE RejectedWithError(p)]_vars

\* C5: the per-call returnFallbackWhenErrorIsFiltered overrides the default:
\* per-call true with default false resolves a filtered error through the
\* fallback, per-call false with default true rejects, and without a
\* per-call value the default decides.
C5_PerCallFlagOverridesDefault ==
    [][\A p \in Procs : SettlesFiltered(p) =>
          /\ (PerCallFlag(p) = Bool(TRUE) /\ DefaultFlag = Bool(FALSE)) => ResolvedByFallback(p)
          /\ (PerCallFlag(p) = Bool(FALSE) /\ DefaultFlag = Bool(TRUE)) => RejectedWithError(p)
          /\ (Nullish(PerCallFlag(p)) /\ DefaultFlag = Bool(TRUE)) => ResolvedByFallback(p)
          /\ (Nullish(PerCallFlag(p)) /\ DefaultFlag # Bool(TRUE)) => RejectedWithError(p)]_vars

\* The field-by-field merge: an own property of the per-call options wins,
\* a default field the per-call options do not hold is kept.
MergedField(p, f) ==
    IF Has(PerCall(p), f) THEN PerCall(p)[f]
    ELSE IF Has(Deref(objects, Get(DEFAULT_OPTIONS, "options")), f) THEN Deref(objects, Get(DEFAULT_OPTIONS, "options"))[f]
    ELSE Absent

\* C6 as stated: the options of a new breaker are the field-by-field merge of
\* the default and the per-call options, for every field.
C6_OptionsAreTheMerge ==
    \A p \in Procs : (Started(p) /\ local[p].created) =>
        \A f \in OptionFields :
            /\ Has(PerCall(p), f) => Created(p)[f] = PerCall(p)[f]
            /\ (~Has(PerCall(p), f) /\ Has(Deref(objects, Get(DEFAULT_OPTIONS, "options")), f)) => Created(p)[f] = Deref(objects, Get(DEFAULT_OPTIONS, "options"))[f]
\* C6: the options of a new breaker are the field-by-field merge of the
\* default and the per-call options (an own property of the per-call options
\* wins even when its value is undefined, a default field the per-call
\* options do not hold is kept), except group and name: a merged group or
\* name that is truthy is kept, any other is replaced by the group or name
\* of the identity the breaker is registered under.
C6_MergeThenIdentity ==
    \A p \in Procs : (Started(p) /\ local[p].created) =>
        /\ \A f \in OptionFields \ {"group", "name"} : Created(p)[f] = MergedField(p, f)
        /\ \A f \in {"group", "name"} : Truthy(MergedField(p, f)) => Created(p)[f] = MergedField(p, f)
        /\ Created(p).group.t = "string" /\ Created(p).name.t = "string"
        /\ local[p].circuitFullName = Created(p).group.v \o ":" \o Created(p).name.v
\* Default timeout 1000 and per-call timeout 500: the breaker has timeout 500
\* and keeps the default errorFilter.
C6_Witness ==
    \E p \in Procs :
        /\ Started(p) /\ local[p].created
        /\ Get(Deref(objects, Get(DEFAULT_OPTIONS, "options")), "timeout") = Num(1000)
        /\ Get(Deref(objects, Get(DEFAULT_OPTIONS, "options")), "errorFilter") = NotFoundFilter
        /\ PerCall(p) = Options([timeout |-> Num(500)])
        /\ Created(p).timeout = Num(500)
        /\ Created(p).errorFilter = NotFoundFilter

\* C7: the key of an invocation is group:name with group the per-call
\* options' group, else the owner type name, else a fresh token, and name
\* the per-call options' name, else the method name; the default options
\* play no part.
C7_IdentityFromPerCallOptions ==
    \A p \in Procs : Started(p) =>
        local[p].circuitFullName =
            TemplateString(Coalesce(Get(PerCall(p), "group"), Coalesce(local[p].site.constructorName, randomUUID(p))))
                \o ":" \o TemplateString(Coalesce(Get(PerCall(p), "name"), Str(local[p].site.propertyKey)))

\* C8 as stated: whenever the call site names a callable fallbackMethod of
\* the receiver and the wrapped operation rejects, the invocation resolves
\* to that method's return value for the receiver and fallback is emitted.
C8_FallbackMethodAlways ==
    \A p \in Procs :
        (/\ pc[p] = "done" /\ local[p].outcome \notin {"none", "resolve"}
         /\ Truthy(Get(local[p].site.maybeOptions, "fallbackMethod"))
         /\ IsFunction(ReceiverProperty(local[p].outerThis, Get(local[p].site.maybeOptions, "fallbackMethod"))))
            => /\ local[p].result.status = "resolved"
               /\ local[p].result.value.by = Get(local[p].site.maybeOptions, "fallbackMethod").v
               /\ local[p].result.value.this = local[p].outerThis
               /\ "fallback" \in local[p].result.emitted
\* C8: when the call site names a callable fallbackMethod of the receiver,
\* the invocation is the one that created the breaker, and the wrapped
\* operation rejects with an error the breaker's errorFilter does not match,
\* the invocation resolves to that method's return value, computed with the
\* receiver as context, and the breaker emits fallback.
C8_FallbackMethodOfCreator ==
    \A p \in Procs :
        (/\ pc[p] = "done" /\ local[p].outcome \notin {"none", "resolve"}
         /\ local[p].created
         /\ ~ErrorFiltered(Created(p), local[p].outcome)
         /\ Truthy(Get(local[p].site.maybeOptions, "fallbackMethod"))
         /\ IsFunction(ReceiverProperty(local[p].outerThis, Get(local[p].site.maybeOptions, "fallbackMethod"))))
            => /\ local[p].result.status = "resolved"
               /\ local[p].result.value = [by |-> Get(local[p].site.maybeOptions, "fallbackMethod").v, this |-> local[p].outerThis,
                                           args |-> Append(local[p].args, local[p].outcome)]
               /\ "fallback" \in local[p].result.emitted
\* The creating invocation of find met Service Unavailable and resolved to
\* the value of its receiver's fallback.
C8_Witness ==
    \E p \in Procs :
        /\ pc[p] = "done" /\ local[p].created /\ local[p].site = SiteFind
        /\ local[p].outcome = "Service Unavailable"
        /\ local[p].result.status = "resolved"
        /\ local[p].result.value.by = "fallback" /\ local[p].result.value.this = local[p].outerThis

\* What a defaultOptions() call made now returns, read through to its options
\* object: the configuration as its caller sees it.
ReturnedNow == [f \in DOMAIN DEFAULT_OPTIONS |-> IF f = "options" THEN Deref(objects, DEFAULT_OPTIONS[f]) ELSE DEFAULT_OPTIONS[f]]

\* C11: defaultOptions returns a defensive copy: in every step other than a
\* call of addDefaultOptions, whatever the application writes to a
\* configuration it got from defaultOptions, to that configuration's options
\* object or to the object it passed to addDefaultOptions, a later
\* defaultOptions returns what it returned before, and so a later breaker is
\* created with the same default options.
C11_DefensiveCopy ==
    [][DEFAULT_OPTIONS' = DEFAULT_OPTIONS => ReturnedNow' = ReturnedNow]_vars

\* C12: addDefaultOptions replaces the default configuration wholesale and
\* touches no breaker: after a call the configuration is exactly the one
\* passed, no field of the previous one survives, and registry, breakers
\* (options, fallback) and setup calls are as before; a breaker created in a
\* later step takes its default timeout and errorFilter from the
\* configuration in force at that step.
C12_ReplacedWholesale ==
    [][/\ DEFAULT_OPTIONS' # DEFAULT_OPTIONS =>
            /\ \E options \in DefaultConfigurations : \A f \in DOMAIN DEFAULT_OPTIONS : DEFAULT_OPTIONS'[f] = options[f]
            /\ defaultOptions(DEFAULT_OPTIONS') = DEFAULT_OPTIONS'
            /\ REGISTRY' = REGISTRY /\ circuits' = circuits /\ setupCalls' = setupCalls
       /\ \A p \in Procs : (pc[p] = "idle" /\ pc'[p] # "idle" /\ local'[p].created) =>
            \A f \in {"timeout", "errorFilter"} :
                ~Has(PerCall(p)', f) => Created(p)'[f] = (IF Has(Deref(objects, DEFAULT_OPTIONS.options), f) THEN Deref(objects, DEFAULT_OPTIONS.options)[f] ELSE Absent)]_vars
\* The configuration with timeout 1000 was replaced by one without options:
\* a breaker created under the first keeps timeout 1000, one created under
\* the second has none.
C12_Witness ==
    /\ DEFAULT_OPTIONS = DefaultUseCircuitBreakerOptions([returnFallbackWhenErrorIsFiltered |-> Bool(FALSE)])
    /\ \E p, q \in Procs :
        /\ local[p].created /\ local[q].created
        /\ Created(p).timeout = Num(1000)
        /\ Created(q).timeout = Absent /\ ~Has(PerCall(q), "timeout")

\* The invocation that created circuits[i], if it has started.
CreatorOf(i) == {p \in Procs : local[p].created /\ local[p].circuit = Ref(i)}
\* The positions in the setup calls of circuits[i] held by the given hook.
SetupLog(i) == IF i <= Len(setupCalls) THEN setupCalls[i] ELSE <<>>
CallsOf(i, kind) == {n \in 1 .. Len(SetupLog(i)) : SetupLog(i)[n].hook = kind}

\* C13: in the creating invocation the per-call setup hook is called, with
\* the receiver as this and the new breaker as argument, only after the
\* default hook (if called) has completed; the fallbackMethod is attached
\* and the breaker fired in one step, which no hook outlasts: a call site
\* with a setup hook fires as that hook completes, a default hook that was
\* called has completed, and no hook is called afterwards.
C13_HooksInOrderBeforeFire ==
    [][\A i \in 1 .. Len(setupCalls') : \A p \in CreatorOf(i)' :
          /\ (CallsOf(i, "perCall") = {} /\ CallsOf(i, "perCall")' # {})
                => /\ \A n \in CallsOf(i, "perCall")' :
                        /\ setupCalls'[i][n].this = local'[p].outerThis
                        /\ setupCalls'[i][n].args = <<Ref(i)>>
                        /\ \A m \in CallsOf(i, "default")' : m < n
                   /\ CallsOf(i, "default")' # {} => pc[p] = "awaitDefaultSetup"
                   /\ pc'[p] = "awaitSetup"
          /\ (pc[p] # "fired" /\ pc'[p] = "fired")
                => /\ pc[p] \in {"idle", "awaitDefaultSetup", "awaitSetup"}
                   /\ Truthy(Get(local'[p].site.maybeOptions, "setup")) => pc[p] = "awaitSetup" /\ CallsOf(i, "perCall") # {}
                   /\ SetupLog(i)' = SetupLog(i)
          /\ (i <= Len(circuits) /\ circuits'[i].fallback # circuits[i].fallback /\ circuits'[i].fallback.this # "none")
                => pc[p] # "fired" /\ pc'[p] = "fired"
          /\ pc[p] \in {"fired", "done"} => (i <= Len(setupCalls) /\ setupCalls'[i] = setupCalls[i] /\ circuits'[i] = circuits[i])]_vars
\* The creating invocation has fired after both hooks: the default hook was
\* called first, the per-call hook second with the receiver as this, and the
\* fallbackMethod is attached.
C13_Witness ==
    \E p \in Procs :
        /\ local[p].created /\ pc[p] = "fired"
        /\ Len(setupCalls[local[p].circuit.v]) = 2
        /\ setupCalls[local[p].circuit.v][1].hook = "default"
        /\ setupCalls[local[p].circuit.v][2] = [hook |-> "perCall", this |-> local[p].outerThis, args |-> <<local[p].circuit>>]
        /\ circuits[local[p].circuit.v].fallback = BoundMethod("fallback", local[p].outerThis)

NotAFunction(propertyKey) == "The @UseCircuitBreaker decorator can be only used on functions, but " \o propertyKey \o " is not a function."

\* C14: applying the decorator to a member whose value is not a function
\* throws the not-a-function error in that very step and leaves the
\* descriptor, the registry, the breakers and every invocation as they were;
\* applied to a function it throws nothing and replaces the descriptor's
\* value.
C14_NotAFunction ==
    [][Decorate =>
          IF descriptor.value \in MemberValues \ {OriginalMethod}
          THEN /\ thrown' = NotAFunction("call")
               /\ descriptor' = descriptor
               /\ REGISTRY' = REGISTRY /\ circuits' = circuits /\ pc' = pc /\ local' = local
          ELSE /\ thrown' = "none"
               /\ descriptor'.value # descriptor.value]_vars
\* The decorator refused the member call = '' and its descriptor still holds ''.
C14_Witness ==
    /\ thrown = NotAFunction("call")
    /\ descriptor = [value |-> Str("")]

\* C15: allCircuits returns exactly the {name, circuit} pairs the registry
\* holds at the call, in the order of registration, and the array returned
\* is a snapshot: a step that registers a breaker, by register or by an
\* invocation in flight, leaves it as it was.
C15_Snapshot ==
    [][/\ snapshot' # snapshot =>
            /\ snapshot'.taken
            /\ Len(snapshot'.array) = Len(REGISTRY)
            /\ \A i \in 1 .. Len(REGISTRY) :
                    /\ DOMAIN snapshot'.array[i] = {"name", "circuit"}
                    /\ snapshot'.array[i].name = REGISTRY[i].name
                    /\ snapshot'.array[i].circuit = REGISTRY[i].circuit
            /\ {snapshot'.array[i].name : i \in 1 .. Len(snapshot'.array)} = Keys(REGISTRY)
       /\ REGISTRY' # REGISTRY => snapshot' = snapshot]_vars
\* The array was returned when the registry held one breaker; an invocation
\* in flight has registered a second since, and the array still holds one.
C15_Witness ==
    /\ snapshot.taken
    /\ Len(snapshot.array) = 1 /\ snapshot.array[1] = [name |-> "circuit-invalid", circuit |-> Ref(1)]
    /\ Len(REGISTRY) = 2
    /\ \E p \in Procs : pc[p] = "fired" /\ local[p].created

\* The errors a failing default and a failing per-call setup hook throw.
HookErrors == {"default setup failed", "setup failed"}
\* The invocation created the breaker of its key and ended on a hook's error.
EndedOnHookError(p) == pc[p] = "done" /\ local[p].created /\ local[p].result.status = "rejected" /\ local[p].result.value \in HookErrors

\* C16: when a setup hook of the creating invocation fails, the invocation
\* rejects with the hook's error and the breaker is never fired by it, the
\* breaker stays registered under its key, and every later invocation on the
\* key finds that breaker and fires it, calling no setup hook and attaching
\* nothing.
C16_NoRollback ==
    [][/\ \A p \in Procs :
            (pc[p] \in {"awaitDefaultSetup", "awaitSetup"} /\ pc'[p] = "done")
                => /\ local'[p].result = [status |-> "rejected", value |-> (IF pc[p] = "awaitSetup" THEN "setup failed" ELSE "default setup failed"), emitted |-> {}]
                   /\ local'[p].outcome = "none"
                   /\ REGISTRY' = REGISTRY
                   /\ setupCalls' = setupCalls
       /\ \A p \in Procs : EndedOnHookError(p) =>
            /\ Entry(REGISTRY, local[p].circuitFullName) = {local[p].circuit}
            /\ Entry(REGISTRY', local[p].circuitFullName) = {local[p].circuit}
            /\ local'[p] = local[p]
            /\ \A q \in Procs :
                (pc[q] = "idle" /\ pc'[q] # "idle" /\ local'[q].circuitFullName = local[p].circuitFullName)
                    => /\ pc'[q] = "fired"
                       /\ ~local'[q].created
                       /\ local'[q].circuit = local[p].circuit
                       /\ setupCalls' = setupCalls /\ circuits' = circuits /\ REGISTRY' = REGISTRY]_vars
\* A per-call hook failed; a later invocation on the same key fired the
\* breaker left behind, which has no fallbackMethod attached, and the
\* wrapped operation failed.
C16_Witness ==
    \E p, q \in Procs :
        /\ EndedOnHookError(p) /\ local[p].result.value = "setup failed"
        /\ pc[q] = "done" /\ ~local[q].created /\ local[q].circuit = local[p].circuit
        /\ local[q].outcome = "Service Unavailable"
        /\ SetupCount(local[p].circuit.v, "perCall") = 1

\* C17: every key the interceptor registers is group:name with a non-empty
\* group and a non-empty name, whatever the per-call group and name and the
\* owner type name are (the empty string included).
C17_NonEmptyIdentity ==
    \A p \in Procs : (Started(p) /\ local[p].created) =>
        /\ local[p].circuitFullName \in Keys(REGISTRY)
        /\ \E group, name \in {"G", "N", "Shared", "Svc", "call", "find", "lookup", "uuid-" \o Decimal(p)} :
                local[p].circuitFullName = group \o ":" \o name

\* C18: the new breaker is registered before any setup hook starts: whenever
\* a setup hook has been called with a breaker, or its creating invocation
\* awaits one, the registry holds that breaker under the invocation's key,
\* and every other invocation started on that key uses that breaker and
\* created none.
C18_RegisteredBeforeHooks ==
    /\ \A i \in 1 .. Len(setupCalls) : setupCalls[i] # <<>> => \E key \in Keys(REGISTRY) : Entry(REGISTRY, key) = {Ref(i)}
    /\ \A p \in Procs : (local[p].created /\ (pc[p] \in {"awaitDefaultSetup", "awaitSetup"} \/ setupCalls[local[p].circuit.v] # <<>>)) =>
            /\ Entry(REGISTRY, local[p].circuitFullName) = {local[p].circuit}
            /\ \A q \in Procs \ {p} : (Started(q) /\ local[q].circuitFullName = local[p].circuitFullName) =>
                    ~local[q].created /\ local[q].circuit = local[p].circuit
\* While the creating invocation awaits the default hook, a second
\* invocation on the key has taken the breaker from the registry.
C18_Witness ==
    \E p, q \in Procs :
        /\ p # q /\ local[p].created /\ pc[p] = "awaitDefaultSetup"
        /\ Started(q) /\ ~local[q].created /\ local[q].circuit = local[p].circuit
        /\ Entry(REGISTRY, local[p].circuitFullName) = {local[p].circuit}
        /\ SetupCount(local[p].circuit.v, "default") = 1

\* The invocation created its breaker and awaits a setup hook.
AwaitsHook(p) == local[p].created /\ pc[p] \in {"awaitDefaultSetup", "awaitSetup"}
\* The next invocation to start, if one is left.
NextToStart(q) == pc[q] = "idle" /\ \A r \in Procs : r < q => pc[r] # "idle"

FiresCreated(p) == pc[p] # "fired" /\ pc'[p] = "fired" /\ local'[p].created
\* fallbackMethod names a callable property of the receiver of p.
NamesCallable(frame) ==
    /\ Truthy(Get(frame.site.maybeOptions, "fallbackMethod"))
    /\ IsFunction(ReceiverProperty(frame.outerThis, Get(frame.site.maybeOptions, "fallbackMethod")))
\* The per-call setup hook of p attaches a fallback to the breaker.
HookAttachesFallback(frame) ==
    /\ Truthy(Get(frame.site.maybeOptions, "setup"))
    /\ Get(frame.site.maybeOptions, "setup").attachesFallback

\* C20: when the creating invocation fires the breaker and its setup hook
\* attached a fallback, the fallback in effect is the fallbackMethod bound to
\* the receiver if fallbackMethod names a callable property of the receiver,
\* and the fallback the hook attached otherwise.
C20_FallbackMethodAppliedLast ==
    [][\A p \in Procs : (FiresCreated(p) /\ HookAttachesFallback(local'[p])) =>
          circuits'[local'[p].circuit.v].fallback =
              IF NamesCallable(local'[p])
              THEN BoundMethod(Get(local'[p].site.maybeOptions, "fallbackMethod").v, local'[p].outerThis)
              ELSE HookFallback]_vars
\* Two breakers were created and fired: one whose hook attached a fallback
\* that the fallbackMethod replaced, one whose fallbackMethod names a
\* property that is not callable, so that the fallback of the hook stayed.
C20_Witness ==
    \E p, q \in Procs :
        /\ pc[p] \in {"fired", "done"} /\ local[p].created /\ local[p].site = SiteLoad
        /\ circuits[local[p].circuit.v].fallback = BoundMethod("fallback", local[p].outerThis)
        /\ pc[q] \in {"fired", "done"} /\ local[q].created /\ local[q].site = SiteSearch
        /\ circuits[local[q].circuit.v].fallback = HookFallback

\* ------------------------------------------------------------------- C21
\* The invocation settles now, on an error its breaker's errorFilter matches,
\* while no fallback is attached to the breaker.
SettlesFilteredBare(p) ==
    /\ pc[p] = "fired" /\ pc'[p] = "done"
    /\ ErrorFiltered(circuits[local[p].circuit.v].options, local'[p].outcome)
    /\ ~Truthy(circuits[local[p].circuit.v].fallback)

\* C21: without a fallback on the breaker, an error the errorFilter matches
\* makes the invocation reject with that same error, whatever the per-call
\* and the process-wide returnFallbackWhenErrorIsFiltered are.
C21_FilteredWithoutFallbackRejects ==
    [][\A p \in Procs : SettlesFilteredBare(p) => RejectedWithError(p)]_vars
\* An invocation whose call site and whose default configuration both set the
\* flag settled on a filtered error, on a breaker without a fallback.
C21_Witness ==
    \E p \in Procs :
        /\ pc[p] = "done" /\ local[p].outcome = "Not Found"
        /\ ErrorFiltered(circuits[local[p].circuit.v].options, "Not Found")
        /\ circuits[local[p].circuit.v].fallback = Undef
        /\ PerCallFlag(p) = Bool(TRUE) /\ DefaultFlag = Bool(TRUE)
        /\ local[p].result.status = "rejected" /\ local[p].result.value = "Not Found"

\* ------------------------------------------------------------------- C22
\* A step of the handler of an invocation.
HandlerStep == \E p \in Procs : pc'[p] # pc[p]

\* C22: no step of an invocation changes the process-wide default
\* configuration or an options object of the application, and the object a
\* call site supplied (its options literal, or what its options function
\* returned for the receiver) is as the call site made it.
C22_OptionsUntouched ==
    [][HandlerStep =>
          /\ DEFAULT_OPTIONS' = DEFAULT_OPTIONS
          /\ objects' = objects
          /\ \A p \in Procs : Started(p)' => local'[p].supplied = PerCall(p)']_vars
\* Two breakers were created under default options that hold no identity:
\* one from an options literal without a group, one from an options function
\* called on the receiver; group and name are on the options of both breakers.
C22_Witness ==
    \E p, q \in Procs :
        /\ local[p].created /\ local[p].site = SiteFind /\ ~Has(local[p].supplied, "group") /\ ~Has(local[p].supplied, "name")
        /\ Created(p).group = Str("Svc") /\ Created(p).name = Str("find")
        /\ local[q].created /\ local[q].site = SiteSearch /\ local[q].outerThis = "r2"
        /\ local[q].supplied = Options([name |-> Str("lookup"), errorFilter |-> NotFoundFilter])
        /\ Created(q).group = Str("Svc")
        /\ Get(DEFAULT_OPTIONS, "options") = OptionsRef(1) /\ ~Has(objects[1], "group") /\ ~Has(objects[1], "name")

\* ------------------------------------------------------------------- C23
\* C23: the per-call setup hook is called with the new breaker followed by
\* the arguments of the creating invocation.
C23_SetupGetsCallArguments ==
    \A i \in 1 .. Len(setupCalls) : \A n \in CallsOf(i, "perCall") : \A p \in CreatorOf(i) :
        setupCalls[i][n].args = <<Ref(i)>> \o local[p].args

\* ------------------------------------------------------------------- C24
\* The invocation p starts now and takes the creating path.
StartsCreating(p) == pc[p] = "idle" /\ pc'[p] # "idle" /\ local'[p].created
\* The key holds the ":" separator.
HasSeparator(key) == \E n \in 1 .. Len(key) : SubSeq(key, n, n) = ":"

\* C24: whatever the interleaving of the invocations, the register call of
\* a creating invocation throws nothing: its key holds the ":" separator and
\* is not registered when it is looked up, the call is made in the same step
\* as the lookup, and the step leaves the new breaker registered under the
\* key with the invocation going on.
C24_OwnRegisterNeverFails ==
    [][\A p \in Procs : StartsCreating(p) =>
          /\ HasSeparator(local'[p].circuitFullName)
          /\ local'[p].circuitFullName \notin Keys(REGISTRY)
          /\ RegisterError(REGISTRY, Str(local'[p].circuitFullName), local'[p].circuit) = "none"
          /\ Entry(REGISTRY', local'[p].circuitFullName) = {local'[p].circuit}
          /\ pc'[p] \in {"awaitDefaultSetup", "awaitSetup", "fired"}]_vars
\* Two invocations are under way at once, each awaiting a setup hook of the
\* breaker it created and registered under a key of its own.
C24_Witness ==
    /\ \A p \in Procs : local[p].created /\ pc[p] \in {"awaitDefaultSetup", "awaitSetup"}
    /\ \A p, q \in Procs : p # q => local[p].circuitFullName # local[q].circuitFullName
    /\ \A p \in Procs : Entry(REGISTRY, local[p].circuitFullName) = {local[p].circuit}

\* ------------------------------------------------------------------- C25
\* The wrapped operation of the invocation p ends now.
Settles(p) == pc[p] = "fired" /\ pc'[p] = "done"

\* C25: a breaker an invocation created runs the method of the creating
\* call site with the receiver of the creating invocation as this, for
\* every invocation that fires it with its own arguments, and a fallback
\* bound to a receiver is bound to the receiver of the creating invocation.
C25_CreatorFixesOperation ==
    [][\A p \in Procs : Settles(p) => \A c \in CreatorOf(local[p].circuit.v) :
          /\ local'[p].outcome = "resolve" =>
                local'[p].result = [status |-> "resolved", emitted |-> {"fire", "success"},
                                    value |-> [by |-> local[c].site.propertyKey, this |-> local[c].outerThis, args |-> local[p].args]]
          /\ Truthy(circuits[local[p].circuit.v].fallback) => circuits[local[p].circuit.v].fallback.this \in {"none", local[c].outerThis}
          /\ (local'[p].result.status = "resolved" /\ local'[p].outcome # "resolve") =>
                local'[p].result.value.this \in {"none", local[c].outerThis}]_vars
\* An invocation of load on one receiver ran find on the other receiver, the
\* receiver of the invocation that created the breaker, and another ended
\* in the fallback of that receiver.
C25_Witness ==
    \E p, c \in Procs :
        /\ pc[p] = "done" /\ ~local[p].created /\ c \in CreatorOf(local[p].circuit.v)
        /\ local[p].site = SiteLoad /\ local[c].site = SiteFind /\ local[p].outerThis # local[c].outerThis
        /\ local[p].outcome = "resolve" /\ local[p].result.status = "resolved"
        /\ local[p].result.value = [by |-> "find", this |-> local[c].outerThis, args |-> local[p].args]
        /\ pc[c] = "done" /\ local[c].outcome = "Service Unavailable"
        /\ local[c].result.status = "resolved" /\ local[c].result.value.by = "fallback" /\ local[c].result.value.this = local[c].outerThis

\* ------------------------------------------------------------------- C26
\* The breaker was created by an invocation that ended on a hook's error.
LeftByFailedHook(i) == \E c \in CreatorOf(i) : EndedOnHookError(c)
\* The function is a method bound to a receiver: a fallbackMethod.
IsFallbackMethod(fn) == Truthy(fn) /\ fn.this # "none"
\* No fallbackMethod is or gets attached to a breaker a failed hook left
\* behind, and a failed default hook leaves the per-call hook uncalled.
NeverFallbackMethod ==
    /\ \A i \in 1 .. Len(circuits) : LeftByFailedHook(i) =>
          /\ ~IsFallbackMethod(circuits[i].fallback)
          /\ ~IsFallbackMethod(circuits'[i].fallback)
    /\ \A p \in Procs : (EndedOnHookError(p) /\ local[p].result.value = "default setup failed") =>
          /\ CallsOf(local[p].circuit.v, "perCall") = {}
          /\ CallsOf(local[p].circuit.v, "perCall")' = {}
\* The wrapped operation of p fails now, on a breaker a failed hook left behind.
FailsOnLeftBreaker(p) == Settles(p) /\ local'[p].outcome # "resolve" /\ LeftByFailedHook(local[p].circuit.v)

\* C26 as stated: after a setup hook of the creating invocation failed, no
\* fallbackMethod is ever attached to the breaker, a failed default hook
\* leaves the per-call hook uncalled, and every later failure of the wrapped
\* operation on the breaker rejects the invocation with the error.
C26_EveryRejectionReachesCaller ==
    [][/\ NeverFallbackMethod
       /\ \A p \in Procs : FailsOnLeftBreaker(p) => RejectedWithError(p)]_vars
\* C26: after a setup hook of the creating invocation failed, no
\* fallbackMethod is ever attached to the breaker, a failed default hook
\* leaves the per-call hook uncalled, and a later failure of the wrapped
\* operation on the breaker never runs a fallbackMethod: it rejects the
\* invocation with the error, unless a hook attached a fallback of its own
\* before the failure and the errorFilter does not match the error, and then
\* the invocation resolves to the value of the hook's fallback.
C26_NoFallbackMethodAfterFailedHook ==
    [][/\ NeverFallbackMethod
       /\ \A p \in Procs : FailsOnLeftBreaker(p) =>
             IF circuits[local[p].circuit.v].fallback = HookFallback /\ ~ErrorFiltered(circuits[local[p].circuit.v].options, local'[p].outcome)
             THEN /\ local'[p].result.status = "resolved"
                  /\ local'[p].result.value = ReturnValue(HookFallback, Append(local[p].args, local'[p].outcome))
             ELSE RejectedWithError(p)]_vars
\* The per-call hook of a call site with a callable fallbackMethod failed
\* before it attached anything, and a later invocation of the same call site
\* on the same receiver was rejected with the error of the operation.
C26_Witness ==
    \E c, p \in Procs :
        /\ EndedOnHookError(c) /\ NamesCallable(local[c]) /\ circuits[local[c].circuit.v].fallback = Undef
        /\ pc[p] = "done" /\ ~local[p].created /\ local[p].circuit = local[c].circuit
        /\ local[p].site = local[c].site /\ local[p].outerThis = local[c].outerThis
        /\ local[p].outcome = "Service Unavailable"
        /\ local[p].result.status = "rejected" /\ local[p].result.value = "Service Unavailable"

====
